---- MODULE Spec2Model ----
(***************************************************************************)
(* Model of the CDP SDK error classifier (cdp/errors.py) and of the        *)
(* WebhookEventFilter model (cdp/client/models/webhook_event_filter.py).   *)
(*                                                                         *)
(* Python values are tagged records, one field name per type so that two   *)
(* values of different types are never compared field by field:            *)
(*   None  [t |-> "null"]          bool  [t |-> "bool", b |-> TRUE]        *)
(*   int   [t |-> "num", n |-> 7]  str   [t |-> "str", s |-> "abc"]        *)
(*   list  [t |-> "arr", a |-> <<v1, v2>>]                                 *)
(*   dict  [t |-> "obj", o |-> << <<k1, v1>>, <<k2, v2>> >>]  (insertion   *)
(*         order, keys unique)                                             *)
(* Response bodies are real strings and json.loads is a parser over them.  *)
(***************************************************************************)
EXTENDS Integers, Sequences, FiniteSets, TLC

VARIABLES registry, pc, op, cls, err, result, rendering, calls, x, d, y

vars == <<registry, pc, op, cls, err, result, rendering, calls, x, d, y>>

\* ------------------------------------------------------------------ bounds

\* JSON numbers 0..MaxNumber occur as code / message values of the bodies.
MaxNumber == 2

\* Number of classifier / constructor / model operations in one behaviour.
MaxCalls == 3

\* ----------------------------------------------------------- Python values

None == [t |-> "null"]

Bool(b) == [t |-> "bool", b |-> b]

Num(n) == [t |-> "num", n |-> n]

Str(s) == [t |-> "str", s |-> s]

Arr(a) == [t |-> "arr", a |-> a]

Obj(o) == [t |-> "obj", o |-> o]

\* Python truth value, as used by `not err.body` and `code and message`.
Truthy(v) ==
  CASE v.t = "null" -> FALSE
    [] v.t = "bool" -> v.b
    [] v.t = "num" -> v.n # 0
    [] v.t = "str" -> v.s # ""
    [] v.t = "arr" -> Len(v.a) # 0
    [] v.t = "obj" -> Len(v.o) # 0
    [] OTHER -> TRUE

\* `x in some_dict` hashes x: lists and dicts raise TypeError.
Hashable(v) == v.t \notin {"arr", "obj"}

\* dict.get(key): the value, or None when the key is absent.
RECURSIVE PairsGet(_, _, _)
PairsGet(o, k, i) ==
  IF i > Len(o) THEN None
  ELSE IF o[i][1] = k THEN o[i][2]
  ELSE PairsGet(o, k, i + 1)

dict_get(v, k) == PairsGet(v.o, k, 1)

\* dict[key] = value: a repeated key keeps its place and takes the new value.
dict_set(o, k, v) ==
  IF \E i \in 1..Len(o) : o[i][1] = k
  THEN [i \in 1..Len(o) |-> IF o[i][1] = k THEN <<k, v>> ELSE o[i]]
  ELSE Append(o, <<k, v>>)

\* -------------------------------------------------------------- json.loads
\* The JSON grammar over strings: whitespace, null, true, false, non-negative
\* integers, strings, arrays and objects.  The bodies drawn below hold no
\* escape sequence, sign, fraction or exponent.

Ch(s, i) == IF i >= 1 /\ i <= Len(s) THEN SubSeq(s, i, i) ELSE ""

StartsWith(s, i, lit) ==
  /\ i + Len(lit) - 1 <= Len(s)
  /\ SubSeq(s, i, i + Len(lit) - 1) = lit

IsWs(c) == c \in {" ", "\t", "\n", "\r"}

Digits == {"0", "1", "2", "3", "4", "5", "6", "7", "8", "9"}

DigitVal(c) ==
  CASE c = "0" -> 0 [] c = "1" -> 1 [] c = "2" -> 2 [] c = "3" -> 3
    [] c = "4" -> 4 [] c = "5" -> 5 [] c = "6" -> 6 [] c = "7" -> 7
    [] c = "8" -> 8 [] c = "9" -> 9

RECURSIVE SkipWs(_, _)
SkipWs(s, i) == IF IsWs(Ch(s, i)) THEN SkipWs(s, i + 1) ELSE i

\* Index of the quote closing the string whose first character is at i; 0 when
\* the string is unterminated or holds a backslash or a control character.
RECURSIVE ScanString(_, _)
ScanString(s, i) ==
  IF i > Len(s) THEN 0
  ELSE IF Ch(s, i) = "\"" THEN i
  ELSE IF Ch(s, i) \in {"\\", "\n", "\t", "\r"} THEN 0
  ELSE ScanString(s, i + 1)

\* Index after the digits that start at i.
RECURSIVE ScanDigits(_, _)
ScanDigits(s, i) == IF Ch(s, i) \in Digits THEN ScanDigits(s, i + 1) ELSE i

RECURSIVE NumVal(_, _, _, _)
NumVal(s, i, j, acc) ==
  IF i >= j THEN acc ELSE NumVal(s, i + 1, j, 10 * acc + DigitVal(Ch(s, i)))

ParseFail == [ok |-> FALSE]

ParseOk(v, i) == [ok |-> TRUE, v |-> v, i |-> i]

RECURSIVE ParseValue(_, _)
RECURSIVE ParseElements(_, _, _)
RECURSIVE ParseMembers(_, _, _)

\* One JSON value starting at i (no leading whitespace).
ParseValue(s, i) ==
  LET c == Ch(s, i) IN
  IF c = "\"" THEN
    LET j == ScanString(s, i + 1) IN
    IF j = 0 THEN ParseFail ELSE ParseOk(Str(SubSeq(s, i + 1, j - 1)), j + 1)
  ELSE IF c = "0" THEN ParseOk(Num(0), i + 1)
  ELSE IF c \in Digits THEN
    LET j == ScanDigits(s, i) IN ParseOk(Num(NumVal(s, i, j, 0)), j)
  ELSE IF StartsWith(s, i, "null") THEN ParseOk(None, i + 4)
  ELSE IF StartsWith(s, i, "true") THEN ParseOk(Bool(TRUE), i + 4)
  ELSE IF StartsWith(s, i, "false") THEN ParseOk(Bool(FALSE), i + 5)
  ELSE IF c = "[" THEN
    LET j == SkipWs(s, i + 1) IN
    IF Ch(s, j) = "]" THEN ParseOk(Arr(<<>>), j + 1)
    ELSE ParseElements(s, j, <<>>)
  ELSE IF c = "{" THEN
    LET j == SkipWs(s, i + 1) IN
    IF Ch(s, j) = "}" THEN ParseOk(Obj(<<>>), j + 1)
    ELSE ParseMembers(s, j, <<>>)
  ELSE ParseFail

\* The elements of an array from i on, acc holding those already read.
ParseElements(s, i, acc) ==
  LET p == ParseValue(s, i) IN
  IF ~p.ok THEN ParseFail
  ELSE
    LET k == SkipWs(s, p.i) IN
    IF Ch(s, k) = "," THEN ParseElements(s, SkipWs(s, k + 1), Append(acc, p.v))
    ELSE IF Ch(s, k) = "]" THEN ParseOk(Arr(Append(acc, p.v)), k + 1)
    ELSE ParseFail

\* The members of an object from i on, acc holding those already read.
ParseMembers(s, i, acc) ==
  IF Ch(s, i) # "\"" THEN ParseFail
  ELSE
    LET j == ScanString(s, i + 1) IN
    IF j = 0 THEN ParseFail
    ELSE
      LET key == SubSeq(s, i + 1, j - 1)
          c == SkipWs(s, j + 1)
      IN
      IF Ch(s, c) # ":" THEN ParseFail
      ELSE
        LET p == ParseValue(s, SkipWs(s, c + 1)) IN
        IF ~p.ok THEN ParseFail
        ELSE
          LET k == SkipWs(s, p.i)
              acc2 == dict_set(acc, key, p.v)
          IN
          IF Ch(s, k) = "," THEN ParseMembers(s, SkipWs(s, k + 1), acc2)
          ELSE IF Ch(s, k) = "}" THEN ParseOk(Obj(acc2), k + 1)
          ELSE ParseFail

\* json.loads(s): [ok |-> TRUE, v |-> value], or [ok |-> FALSE] for
\* json.JSONDecodeError (no value, or extra data after the value).
json_loads(s) ==
  LET p == ParseValue(s, SkipWs(s, 1)) IN
  IF ~p.ok THEN ParseFail
  ELSE IF SkipWs(s, p.i) = Len(s) + 1 THEN [ok |-> TRUE, v |-> p.v]
  ELSE ParseFail

\* ---------------------------------------------------------- cdp/errors.py

\* The module-level dict ERROR_CODE_TO_ERROR_CLASS, as it is when the module
\* has been imported.
ERROR_CODE_TO_ERROR_CLASS ==
  ("unimplemented" :> "UnimplementedError")
  @@ ("unauthorized" :> "UnauthorizedError")
  @@ ("internal" :> "InternalError")
  @@ ("not_found" :> "NotFoundError")
  @@ ("invalid_wallet_id" :> "InvalidWalletIDError")
  @@ ("invalid_address_id" :> "InvalidAddressIDError")
  @@ ("invalid_wallet" :> "InvalidWalletError")
  @@ ("invalid_address" :> "InvalidAddressError")
  @@ ("invalid_amount" :> "InvalidAmountError")
  @@ ("invalid_transfer_id" :> "InvalidTransferIDError")
  @@ ("invalid_page_token" :> "InvalidPageError")
  @@ ("invalid_page_limit" :> "InvalidLimitError")
  @@ ("already_exists" :> "AlreadyExistsError")
  @@ ("malformed_request" :> "MalformedRequestError")
  @@ ("unsupported_asset" :> "UnsupportedAssetError")
  @@ ("invalid_asset_id" :> "InvalidAssetIDError")
  @@ ("invalid_destination" :> "InvalidDestinationError")
  @@ ("invalid_network_id" :> "InvalidNetworkIDError")
  @@ ("resource_exhausted" :> "ResourceExhaustedError")
  @@ ("faucet_limit_reached" :> "FaucetLimitReachedError")
  @@ ("invalid_signed_payload" :> "InvalidSignedPayloadError")
  @@ ("invalid_transfer_status" :> "InvalidTransferStatusError")
  @@ ("network_feature_unsupported" :> "NetworkFeatureUnsupportedError")

\* The classes `class X(APIError): pass`.
APIErrorSubclasses ==
  {"UnimplementedError", "UnauthorizedError", "InternalError", "NotFoundError",
   "InvalidWalletIDError", "InvalidAddressIDError", "InvalidWalletError",
   "InvalidAddressError", "InvalidAmountError", "InvalidTransferIDError",
   "InvalidPageError", "InvalidLimitError", "AlreadyExistsError",
   "MalformedRequestError", "UnsupportedAssetError", "InvalidAssetIDError",
   "InvalidDestinationError", "InvalidNetworkIDError", "ResourceExhaustedError",
   "FaucetLimitReachedError", "InvalidSignedPayloadError",
   "InvalidTransferStatusError", "NetworkFeatureUnsupportedError"}

\* cdp.client.exceptions.ApiException, by the two attributes errors.py reads.
ApiException(status, body) ==
  [isApiException |-> TRUE, status |-> status, body |-> body]

\* Any object that is not an ApiException.
NotApiException == [isApiException |-> FALSE]

\* A raised exception, by its class name.
Raise(exc) == [exc |-> exc]

IsRaise(r) == "exc" \in DOMAIN r

\* Faulty variant of APIError_init: handled computed without looking at message.
APIError_init_ignoring_message(k, e, code, message, unhandled) ==
  [kind |-> k,
   http_code |-> e.status,
   api_code |-> code,
   api_message |-> message,
   handled |-> (Truthy(code) /\ ~unhandled)]

\* Faulty variant of APIError_init: the unhandled flag taken the wrong way round.
APIError_init_flag_inverted(k, e, code, message, unhandled) ==
  [kind |-> k,
   http_code |-> e.status,
   api_code |-> code,
   api_message |-> message,
   handled |-> (Truthy(code) /\ Truthy(message) /\ unhandled)]

\* APIError.__init__ run for class k: the new error object.  The Exception
\* message str(err) given to super().__init__ is read by no operation here.
APIError_init(k, e, code, message, unhandled) ==
  [kind |-> k,
   http_code |-> e.status,
   api_code |-> code,
   api_message |-> message,
   handled |-> (Truthy(code) /\ Truthy(message) /\ ~unhandled)]

\* Faulty variant of from_error: the fallback paths build APIError, not the receiver.
from_error_base_fallback(k, e, reg) ==
  IF ~e.isApiException THEN Raise("ValueError")
  ELSE IF ~Truthy(e.body) THEN APIError_init("APIError", e, None, None, FALSE)
  ELSE
    LET p == json_loads(e.body.s) IN
    IF ~p.ok THEN APIError_init("APIError", e, None, None, FALSE)
    ELSE IF p.v.t # "obj" THEN Raise("AttributeError")
    ELSE
      LET message == dict_get(p.v, "message")
          code == dict_get(p.v, "code")
      IN
      IF ~Hashable(code) THEN Raise("TypeError")
      ELSE IF code.t = "str" /\ code.s \in DOMAIN reg
      THEN APIError_init(reg[code.s], e, code, message, FALSE)
      ELSE APIError_init("APIError", e, code, message, TRUE)

\* Faulty variant of from_error: a body that does not parse still reports a code.
from_error_keeping_raw_body(k, e, reg) ==
  IF ~e.isApiException THEN Raise("ValueError")
  ELSE IF ~Truthy(e.body) THEN APIError_init(k, e, None, None, FALSE)
  ELSE
    LET p == json_loads(e.body.s) IN
    IF ~p.ok THEN APIError_init(k, e, e.body, None, FALSE)
    ELSE IF p.v.t # "obj" THEN Raise("AttributeError")
    ELSE
      LET message == dict_get(p.v, "message")
          code == dict_get(p.v, "code")
      IN
      IF ~Hashable(code) THEN Raise("TypeError")
      ELSE IF code.t = "str" /\ code.s \in DOMAIN reg
      THEN APIError_init(reg[code.s], e, code, message, FALSE)
      ELSE APIError_init(k, e, code, message, TRUE)

\* str.lower() on ASCII letters.
UpperLetters == "ABCDEFGHIJKLMNOPQRSTUVWXYZ"

LowerLetters == "abcdefghijklmnopqrstuvwxyz"

LowerCh(c) ==
  IF \E i \in 1..26 : Ch(UpperLetters, i) = c
  THEN Ch(LowerLetters, CHOOSE i \in 1..26 : Ch(UpperLetters, i) = c)
  ELSE c

RECURSIVE Lower(_)
Lower(w) == IF w = "" THEN "" ELSE LowerCh(Ch(w, 1)) \o Lower(SubSeq(w, 2, Len(w)))

\* Faulty variant of from_error: the registry is looked up with code.lower().
from_error_case_insensitive(k, e, reg) ==
  IF ~e.isApiException THEN Raise("ValueError")
  ELSE IF ~Truthy(e.body) THEN APIError_init(k, e, None, None, FALSE)
  ELSE
    LET p == json_loads(e.body.s) IN
    IF ~p.ok THEN APIError_init(k, e, None, None, FALSE)
    ELSE IF p.v.t # "obj" THEN Raise("AttributeError")
    ELSE
      LET message == dict_get(p.v, "message")
          code == dict_get(p.v, "code")
      IN
      IF ~Hashable(code) THEN Raise("TypeError")
      ELSE IF code.t = "str" /\ Lower(code.s) \in DOMAIN reg
      THEN APIError_init(reg[Lower(code.s)], e, code, message, FALSE)
      ELSE APIError_init(k, e, code, message, TRUE)

\* APIError.from_error called on class k with argument e, reg being the
\* registry: the error object returned, or the exception raised.
from_error(k, e, reg) ==
  IF ~e.isApiException THEN Raise("ValueError")
  ELSE IF ~Truthy(e.body) THEN APIError_init(k, e, None, None, FALSE)
  ELSE
    LET p == json_loads(e.body.s) IN
    IF ~p.ok THEN APIError_init(k, e, None, None, FALSE)
    \* body.get on a list, str, int, bool or None
    ELSE IF p.v.t # "obj" THEN Raise("AttributeError")
    ELSE
      LET message == dict_get(p.v, "message")
          code == dict_get(p.v, "code")
      IN
      \* `code in ERROR_CODE_TO_ERROR_CLASS` hashes code
      IF ~Hashable(code) THEN Raise("TypeError")
      ELSE IF code.t = "str" /\ code.s \in DOMAIN reg
      THEN APIError_init(reg[code.s], e, code, message, FALSE)
      ELSE APIError_init(k, e, code, message, TRUE)

\* Python's repr of a value (strings here hold no quote or backslash).
RECURSIVE PyRepr(_)
RECURSIVE JoinElements(_, _)
RECURSIVE JoinItems(_, _)
PyRepr(v) ==
  CASE v.t = "null" -> "None"
    [] v.t = "bool" -> IF v.b THEN "True" ELSE "False"
    [] v.t = "num" -> ToString(v.n)
    [] v.t = "str" -> "'" \o v.s \o "'"
    [] v.t = "arr" -> "[" \o JoinElements(v.a, 1) \o "]"
    [] v.t = "obj" -> "{" \o JoinItems(v.o, 1) \o "}"

JoinElements(a, i) ==
  IF i > Len(a) THEN ""
  ELSE PyRepr(a[i]) \o (IF i < Len(a) THEN ", " ELSE "") \o JoinElements(a, i + 1)

JoinItems(o, i) ==
  IF i > Len(o) THEN ""
  ELSE "'" \o o[i][1] \o "': " \o PyRepr(o[i][2])
       \o (IF i < Len(o) THEN ", " ELSE "") \o JoinItems(o, i + 1)

\* What an f-string puts for {v}: str(v).
PyStr(v) == IF v.t = "str" THEN v.s ELSE PyRepr(v)

\* APIError.__str__
APIError_str(e) ==
  IF e.handled
  THEN "APIError(http_code=" \o ToString(e.http_code)
       \o ", api_code=" \o PyStr(e.api_code)
       \o ", api_message=" \o PyStr(e.api_message) \o ")"
  ELSE "APIError(http_code=" \o ToString(e.http_code)
       \o ", api_code=" \o PyStr(e.api_code)
       \o ", api_message=" \o PyStr(e.api_message) \o ", unhandled=True)"

\* `sub in s` for strings.
Contains(s, sub) ==
  \E i \in 1..(Len(s) - Len(sub) + 1) : SubSeq(s, i, i + Len(sub) - 1) = sub

\* ------------------------------ cdp/client/models/webhook_event_filter.py

\* WebhookEventFilter.__properties
properties == <<"contract_address", "from_address", "to_address">>

\* Optional[StrictStr]: None or a str, nothing is coerced.
ValidField(v) == v.t \in {"null", "str"}

HasKey(o, k) == \E i \in 1..Len(o) : o[i][1] = k

\* pydantic's validation of a dict against the three declared fields (also
\* what WebhookEventFilter(**kwargs) runs): a missing key takes the default
\* None, keys that are no field are ignored, a value that is neither None nor
\* a str raises ValidationError.  fields_set is pydantic's model_fields_set.
model_validate(obj) ==
  IF \E i \in 1..3 : ~ValidField(dict_get(obj, properties[i]))
  THEN Raise("ValidationError")
  ELSE [t |-> "model",
        contract_address |-> dict_get(obj, "contract_address"),
        from_address |-> dict_get(obj, "from_address"),
        to_address |-> dict_get(obj, "to_address"),
        fields_set |-> {properties[i] : i \in {j \in 1..3 : HasKey(obj.o, properties[j])}}]

\* The value of field k of instance m.
Field(m, k) ==
  CASE k = "contract_address" -> m.contract_address
    [] k = "from_address" -> m.from_address
    [] k = "to_address" -> m.to_address

\* Faulty variant of model_dump: every falsy value is left out, not only None.
RECURSIVE model_dump_dropping_falsy(_, _, _)
model_dump_dropping_falsy(m, exclude_none, i) ==
  IF i > 3 THEN <<>>
  ELSE
    LET k == properties[i]
        rest == model_dump_dropping_falsy(m, exclude_none, i + 1)
    IN
    IF exclude_none /\ ~Truthy(Field(m, k)) THEN rest ELSE <<<<k, Field(m, k)>>>> \o rest

\* self.model_dump(by_alias=True, exclude=set(), exclude_none=...): the
\* fields from the i-th on, in declaration order, None values left out.
RECURSIVE model_dump(_, _, _)
model_dump(m, exclude_none, i) ==
  IF i > 3 THEN <<>>
  ELSE
    LET k == properties[i]
        rest == model_dump(m, exclude_none, i + 1)
    IN
    IF exclude_none /\ Field(m, k) = None THEN rest ELSE <<<<k, Field(m, k)>>>> \o rest

\* WebhookEventFilter.to_dict
to_dict(m) == Obj(model_dump(m, TRUE, 1))

\* WebhookEventFilter.from_dict
from_dict(obj) ==
  IF obj = None THEN None
  ELSE IF obj.t # "obj" THEN
    \* model_validate of a non-dict: an instance is returned as it is
    IF obj.t = "model" THEN obj ELSE Raise("ValidationError")
  ELSE model_validate(Obj(<< <<"contract_address", dict_get(obj, "contract_address")>>,
                            <<"from_address", dict_get(obj, "from_address")>>,
                            <<"to_address", dict_get(obj, "to_address")>> >>))

\* pydantic's BaseModel.__eq__: same class and same field values.
model_eq(a, b) ==
  /\ a.t = "model"
  /\ b.t = "model"
  /\ \A i \in 1..3 : Field(a, properties[i]) = Field(b, properties[i])

\* ------------------------------------------------------------------ inputs

Statuses == {400, 404, 500}

\* Classes from_error and the constructor are called on.
ReceiverClasses == {"APIError", "NotFoundError", "InvalidAmountError"}

RegistryCodes == DOMAIN ERROR_CODE_TO_ERROR_CLASS

\* Codes a server may send that are no registry key.
UnknownCodes == {"totally_unknown_code", "NOT_FOUND", "Not_Found", "not_found ", ""}

CodeStrings == RegistryCodes \cup UnknownCodes

NonEmptyMessages == {"m", "wallet not found", "unhandled=True"}

MessageStrings == NonEmptyMessages \cup {""}

Quote(s) == "\"" \o s \o "\""

\* JSON texts of values that are not strings.
NonStringTexts ==
  {"null", "true", "false", "[]", "[\"not_found\"]", "{}", "{\"a\":1}"}
  \cup {ToString(n) : n \in 0..MaxNumber}

\* The text of a member that is left out of the object.
Absent == ""

CodeTexts == {Absent} \cup {Quote(s) : s \in CodeStrings} \cup NonStringTexts

MessageTexts == {Absent} \cup {Quote(s) : s \in MessageStrings} \cup NonStringTexts

\* The body {"code": c, "message": m}, c and m being JSON texts or Absent.
ObjectText(c, m) ==
  "{" \o (IF c = Absent THEN "" ELSE "\"code\":" \o c)
      \o (IF c # Absent /\ m # Absent THEN "," ELSE "")
      \o (IF m = Absent THEN "" ELSE "\"message\":" \o m)
      \o "}"

ObjectTexts ==
  {ObjectText(c, m) : c \in CodeTexts, m \in MessageTexts}
  \cup {"{ \"code\" : \"not_found\" ,\n \"message\" : \"m\" }",
        "{\"message\":\"m\",\"code\":\"internal\"}",
        "{\"code\":\"bogus\",\"code\":\"not_found\",\"message\":\"m\"}",
        "{\"code\":\"not_found\",\"message\":\"m\",\"correlation_id\":\"abc\"}"}

\* Bodies that are not JSON.
NonJsonTexts ==
  {"not json", " ", "{", "{\"code\":", "{\"code\" \"not_found\"}", "[1,]", "nul",
   "{\"code\":\"not_found\"} x", "01", "{'code':'not_found'}", "\"not_found",
   "{\"code\":\"not_found\",}", "<html>502 Bad Gateway</html>"}

\* Bodies that are JSON but no object.
NonObjectTexts ==
  {"[]", "[\"not_found\"]", "[{\"code\":\"not_found\",\"message\":\"m\"}]",
   "\"not_found\"", "null", "true", "false"}
  \cup {ToString(n) : n \in 0..MaxNumber}

Bodies ==
  {None, Str("")} \cup {Str(b) : b \in NonJsonTexts \cup NonObjectTexts \cup ObjectTexts}

TransportErrors == {ApiException(s, b) : s \in Statuses, b \in Bodies}

\* Arguments given to the constructor directly.
CodeArgs == {None} \cup {Str(s) : s \in CodeStrings}

MessageArgs == {None} \cup {Str(s) : s \in MessageStrings}

\* Values of a WebhookEventFilter field.
Addresses == {"", "0xabc", "0xdef"}

\* What a keyword argument of WebhookEventFilter(...) can be: left out, None
\* or a string.
Unset == [t |-> "unset"]

FieldArgs == {Unset, None} \cup {Str(a) : a \in Addresses}

KwArg(k, v) == IF v = Unset THEN <<>> ELSE << <<k, v>> >>

\* Dicts given to from_dict that no to_dict produced.
RawDicts ==
  {None,
   Obj(<<>>),
   Obj(<< <<"to_address", Str("0xabc")>>, <<"network_id", Str("base")>> >>),
   Obj(<< <<"from_address", Num(1)>> >>),
   Obj(<< <<"contract_address", Arr(<<>>)>> >>),
   Arr(<<>>)}

\* ----------------------------------------------------------------- actions

Init ==
  /\ registry = ERROR_CODE_TO_ERROR_CLASS
  /\ pc = "idle"
  /\ op = "none"
  /\ cls = "none"
  /\ err = None
  /\ result = None
  /\ rendering = ""
  /\ calls = 0
  /\ x = None
  /\ d = None
  /\ y = None

\* Faulty variant of FromError: an unknown code is registered for the receiver class
\* (ERROR_CODE_TO_ERROR_CLASS.setdefault(code, cls) in place of the lookup).
FromErrorRegistering ==
  /\ pc = "idle"
  /\ calls < MaxCalls
  /\ \E k \in ReceiverClasses, e \in TransportErrors \cup {NotApiException} :
       LET r == from_error(k, e, registry) IN
       /\ cls' = k
       /\ err' = e
       /\ result' = r
       /\ pc' = IF IsRaise(r) THEN "raised" ELSE "returned"
       /\ registry' =
            IF ~IsRaise(r) /\ r.api_code.t = "str" /\ r.api_code.s \notin DOMAIN registry
            THEN registry @@ (r.api_code.s :> k)
            ELSE registry
  /\ op' = "from_error"
  /\ calls' = calls + 1
  /\ UNCHANGED <<rendering, x, d, y>>

\* A call K.from_error(e).
FromError ==
  /\ pc = "idle"
  /\ calls < MaxCalls
  /\ \E k \in ReceiverClasses, e \in TransportErrors \cup {NotApiException} :
       LET r == from_error(k, e, registry) IN
       /\ cls' = k
       /\ err' = e
       /\ result' = r
       /\ pc' = IF IsRaise(r) THEN "raised" ELSE "returned"
  /\ op' = "from_error"
  /\ calls' = calls + 1
  /\ UNCHANGED <<registry, rendering, x, d, y>>

\* A direct construction K(e, code, message, unhandled).
Construct ==
  /\ pc = "idle"
  /\ calls < MaxCalls
  /\ \E k \in ReceiverClasses, s \in Statuses, code \in CodeArgs,
        message \in MessageArgs, unhandled \in BOOLEAN :
       /\ cls' = k
       /\ err' = ApiException(s, None)
       /\ result' = APIError_init(k, ApiException(s, None), code, message, unhandled)
  /\ pc' = "returned"
  /\ op' = "init"
  /\ calls' = calls + 1
  /\ UNCHANGED <<registry, rendering, x, d, y>>

\* str(e) of the error object last returned.
Render ==
  /\ pc = "returned"
  /\ rendering' = APIError_str(result)
  /\ pc' = "rendered"
  /\ UNCHANGED <<registry, op, cls, err, result, calls, x, d, y>>

\* WebhookEventFilter(contract_address=..., from_address=..., to_address=...)
NewModel ==
  /\ pc = "idle"
  /\ calls < MaxCalls
  /\ \E c \in FieldArgs, f \in FieldArgs, t \in FieldArgs :
       x' = model_validate(Obj(KwArg("contract_address", c)
                               \o KwArg("from_address", f)
                               \o KwArg("to_address", t)))
  /\ pc' = "built"
  /\ op' = "model"
  /\ calls' = calls + 1
  /\ UNCHANGED <<registry, cls, err, result, rendering, d, y>>

\* d = x.to_dict()
ToDict ==
  /\ pc = "built"
  /\ d' = to_dict(x)
  /\ pc' = "dumped"
  /\ UNCHANGED <<registry, op, cls, err, result, rendering, calls, x, y>>

\* y = WebhookEventFilter.from_dict(d)
FromDict ==
  /\ pc = "dumped"
  /\ y' = from_dict(d)
  /\ pc' = "loaded"
  /\ UNCHANGED <<registry, op, cls, err, result, rendering, calls, x, d>>

\* WebhookEventFilter.from_dict of a dict received from elsewhere.
LoadDict ==
  /\ pc = "idle"
  /\ calls < MaxCalls
  /\ \E o \in RawDicts :
       /\ d' = o
       /\ y' = from_dict(o)
  /\ pc' = "loaded"
  /\ op' = "from_dict"
  /\ calls' = calls + 1
  /\ UNCHANGED <<registry, cls, err, result, rendering, x>>

\* The caller drops what the last operation gave and goes on.
Discard ==
  /\ pc \in {"returned", "raised", "rendered", "loaded"}
  /\ pc' = "idle"
  /\ op' = "none"
  /\ cls' = "none"
  /\ err' = None
  /\ result' = None
  /\ rendering' = ""
  /\ x' = None
  /\ d' = None
  /\ y' = None
  /\ UNCHANGED <<registry, calls>>

Next ==
  \/ FromError
  \/ Construct
  \/ Render
  \/ NewModel
  \/ ToDict
  \/ FromDict
  \/ LoadDict
  \/ Discard

Spec == Init /\ [][Next]_vars

\* ------------------------------------------------------------------ claims

\* The last operation was a from_error call on a transport error.
Classified == op = "from_error" /\ pc \in {"returned", "raised"} /\ err.isApiException

\* <<body, code, message>> for the bodies {"code": C, "message": m} with C a
\* registry key and m a non-empty string.
KnownCodeCases ==
  {<<Str(ObjectText(Quote(c), Quote(m))), c, m>> : c \in RegistryCodes, m \in NonEmptyMessages}

\* C1: a body {"code": C, "message": m} with C a registry key and m a
\* non-empty string, under any status S, is classified as the class the
\* registry maps C to, with handled = true, api_code = C, api_message = m and
\* http_code = S.
C1_KnownCodeWithMessage ==
  Classified =>
    \A p \in KnownCodeCases :
      err.body = p[1] =>
        /\ pc = "returned"
        /\ result = [kind |-> registry[p[2]],
                     http_code |-> err.status,
                     api_code |-> Str(p[2]),
                     api_message |-> Str(p[3]),
                     handled |-> TRUE]

C1_Witness ==
  /\ pc = "returned"
  /\ op = "from_error"
  /\ err = ApiException(404, Str("{\"code\":\"not_found\",\"message\":\"wallet not found\"}"))
  /\ result.kind = "NotFoundError"
  /\ result.handled

\* C2: from_error never raises on a transport error, whatever its body.
C2_NeverThrows == Classified => pc = "returned"

\* C3: every error object, from from_error or from the constructor, has
\* handled = true exactly when a code and a message are both present and the
\* code is a registry key.  "Present" is read as Python reads it in
\* `code and message` (not None and not empty), the reading under which the
\* results of from_error satisfy the statement.
C3_HandledIffRegistered ==
  (pc = "returned" /\ op \in {"from_error", "init"}) =>
    (result.handled <=>
       /\ Truthy(result.api_code)
       /\ Truthy(result.api_message)
       /\ result.api_code.t = "str"
       /\ result.api_code.s \in DOMAIN registry)

\* <<body, code>> for the object bodies whose code is a string that is no
\* registry key, with every message member.
UnknownCodeCases ==
  {<<Str(ObjectText(Quote(c), m)), c>> : c \in UnknownCodes, m \in MessageTexts}

\* C4: an object body whose code is a string that is no registry key (case
\* variants of a key included) is classified by APIError.from_error as the
\* base kind APIError with handled = false, api_code the code and http_code
\* the status.
C4_UnknownCode ==
  (Classified /\ cls = "APIError") =>
    \A p \in UnknownCodeCases :
      err.body = p[1] =>
        /\ pc = "returned"
        /\ result.kind = "APIError"
        /\ result.handled = FALSE
        /\ result.api_code = Str(p[2])
        /\ result.http_code = err.status

C4_Witness ==
  /\ pc = "returned"
  /\ op = "from_error"
  /\ cls = "APIError"
  /\ err = ApiException(400, Str("{\"code\":\"NOT_FOUND\",\"message\":\"m\"}"))
  /\ result.kind = "APIError"
  /\ result.api_code = Str("NOT_FOUND")
  /\ ~result.handled

\* Bodies that are absent, empty or not JSON.
NoJsonBodies == {None, Str("")} \cup {Str(b) : b \in NonJsonTexts}

\* C5: a body that is absent, empty or not JSON is classified by
\* APIError.from_error as the base kind APIError with api_code and
\* api_message absent, handled = false and http_code the status.
C5_AbsentOrNotJson ==
  (Classified /\ cls = "APIError" /\ err.body \in NoJsonBodies) =>
    /\ pc = "returned"
    /\ result = [kind |-> "APIError",
                 http_code |-> err.status,
                 api_code |-> None,
                 api_message |-> None,
                 handled |-> FALSE]

C5_Witness ==
  /\ pc = "returned"
  /\ op = "from_error"
  /\ cls = "APIError"
  /\ err = ApiException(500, Str("not json"))
  /\ result.kind = "APIError"
  /\ result.api_code = None
  /\ ~result.handled

\* C6: str(e) contains the marker "unhandled=True" exactly when e.handled is
\* false.
C6_MarkerIffUnhandled ==
  pc = "rendered" => (Contains(rendering, "unhandled=True") <=> ~result.handled)

\* <<message member, value of body.get("message")>> for a message that is
\* absent, null or a string.
MessageCases ==
  {<<Absent, None>>, <<"null", None>>} \cup {<<Quote(m), Str(m)>> : m \in MessageStrings}

\* <<body, code, message value>> for a registry key and such a message.
RegisteredCodeCases ==
  {<<Str(ObjectText(Quote(c), mc[1])), c, mc[2]>> : c \in RegistryCodes, mc \in MessageCases}

\* C7 as stated: an object body whose code is a registry key, the message
\* being absent, null or any string, is classified as the registry's class
\* with status, code and message attached and handled = true.
C7_RegisteredCodeHandled ==
  Classified =>
    \A p \in RegisteredCodeCases :
      err.body = p[1] =>
        /\ pc = "returned"
        /\ result = [kind |-> registry[p[2]],
                     http_code |-> err.status,
                     api_code |-> Str(p[2]),
                     api_message |-> p[3],
                     handled |-> TRUE]

\* C7 amended: as above, but handled is true exactly when the message is a
\* non-empty string; with the message absent, null or empty handled is false.
C7_RegisteredCodeHandledIffMessage ==
  Classified =>
    \A p \in RegisteredCodeCases :
      err.body = p[1] =>
        /\ pc = "returned"
        /\ result = [kind |-> registry[p[2]],
                     http_code |-> err.status,
                     api_code |-> Str(p[2]),
                     api_message |-> p[3],
                     handled |-> (p[3] # None /\ p[3] # Str(""))]

C7_Witness ==
  /\ pc = "returned"
  /\ op = "from_error"
  /\ err = ApiException(404, Str("{\"code\":\"not_found\"}"))
  /\ result.kind = "NotFoundError"
  /\ result.api_code = Str("not_found")
  /\ result.api_message = None
  /\ ~result.handled

\* C8: in every reachable state the registry is the one built at import: its
\* keys are the 23 listed codes and each maps to the same class.
C8_RegistryUnchanged ==
  /\ registry = ERROR_CODE_TO_ERROR_CLASS
  /\ Cardinality(DOMAIN registry) = 23
  /\ DOMAIN registry =
       {"unimplemented", "unauthorized", "internal", "not_found",
        "invalid_wallet_id", "invalid_address_id", "invalid_wallet",
        "invalid_address", "invalid_amount", "invalid_transfer_id",
        "invalid_page_token", "invalid_page_limit", "already_exists",
        "malformed_request", "unsupported_asset", "invalid_asset_id",
        "invalid_destination", "invalid_network_id", "resource_exhausted",
        "faucet_limit_reached", "invalid_signed_payload",
        "invalid_transfer_status", "network_feature_unsupported"}
  /\ {registry[c] : c \in DOMAIN registry} = APIErrorSubclasses

C8_Witness ==
  /\ calls >= 2
  /\ pc = "returned"
  /\ op = "from_error"
  /\ result.api_code = Str("totally_unknown_code")

\* C9: for an instance x whose fields are each None or a string,
\* from_dict(x.to_dict()) is an instance with the same three field values,
\* and to_dict holds exactly the fields of x that are not None.
C9_RoundTrip ==
  (pc = "loaded" /\ op = "model") =>
    /\ model_eq(y, x)
    /\ \A i \in 1..3 :
         HasKey(d.o, properties[i]) <=> Field(x, properties[i]) # None
    /\ \A j \in 1..Len(d.o) : d.o[j][2] # None

C9_Witness ==
  /\ pc = "loaded"
  /\ op = "model"
  /\ x.contract_address = Str("0xabc")
  /\ x.from_address = None
  /\ "from_address" \in x.fields_set
  /\ x.to_address = Str("")
  /\ Len(d.o) = 2
  /\ y.to_address = Str("")

\* C10: the class from_error is called on decides the class of the result
\* only in the fallback paths: a body whose code is a registry key gives the
\* registry's class whatever the receiver, and an absent or non-JSON body or
\* a code that is no registry key gives an instance of the receiver class
\* with handled = false.
C10_ReceiverOnlyInFallback ==
  (Classified /\ pc = "returned") =>
    /\ IF result.api_code.t = "str" /\ result.api_code.s \in DOMAIN registry
       THEN result.kind = registry[result.api_code.s]
       ELSE result.kind = cls /\ ~result.handled
    /\ err.body \in NoJsonBodies => result.kind = cls
    /\ \A p \in UnknownCodeCases : err.body = p[1] => result.kind = cls
    /\ \A p \in RegisteredCodeCases : err.body = p[1] => result.kind = registry[p[2]]

C10_Witness ==
  /\ pc = "returned"
  /\ op = "from_error"
  /\ cls = "NotFoundError"
  /\ err = ApiException(500, Str("not json"))
  /\ result.kind = "NotFoundError"
  /\ ~result.handled

====
